---- MODULE Spec2Model ----
(***************************************************************************)
(* Authentication and account-security core of the user-management API:   *)
(* the login state machine (AuthenticationManagerImpl over the user and   *)
(* login-attempt repositories), the token manager with its blacklist, and  *)
(* the blacklist on its own.  Time is in milliseconds.                     *)
(***************************************************************************)
EXTENDS Integers, Sequences, FiniteSets, TLC

\* ------------------------------------------------------------------ bounds
\* number of clock advances a behaviour takes
MaxClock == 2
\* largest stored attempt count a behaviour drives a ledger row to
MaxAttemptCount == 6
\* number of tokens GenerateToken mints in a behaviour
MaxIssued == 2
\* the largest attempt count of the lock-delay table that is enumerated
MaxDelayAttempts == 12
\* the capacity the rate limiter's buckets are created with
globalBurst == 2
\* the buckets allocated in one run
MaxBuckets == 3

\* ------------------------------------------------------- program constants
MAX_LOGIN_ATTEMPTS == 5

Sec(n) == n * 1000
Minute(n) == n * Sec(60)
Hour(n) == n * Minute(60)

\* ------------------------------------------------------------------ values
Procs == {1, 2}
Usernames == {"alice", "ghost"}
Origins == {"1.2.3.4", "5.6.7.8"}
Passwords == {"good", "bad"}
Keys == Usernames \X Origins

UserStatusActive == "active"
UserStatusLocked == "locked"
UserStatusInactive == "inactive"
UserStatusDeleted == "deleted"

\* apperrors: an error is its code and its message; Nil is the nil error
Nil == [code |-> "", message |-> ""]
NewAuthenticationError(code, message) == [code |-> code, message |-> message]
NewNotFoundError(message) == [code |-> "NOT_FOUND", message |-> message]
NewInternalError(message) == [code |-> "INTERNAL_ERROR", message |-> message]
NewDatabaseError(message) == [code |-> "DATABASE_ERROR", message |-> message]
NewTokenError(code, message) == [code |-> code, message |-> message]

VARIABLES
    users,          \* table users: username -> row
    loginAttempts,  \* table login_attempts: (username, ip_address) -> row
    now,            \* the wall clock, ms
    ticks,          \* clock advances taken so far
    pc,             \* per login request: the statement it is at
    req,            \* per login request: username, password, ipAddress
    found,          \* per login request: did First() find the ledger row
    seen,           \* per login request: attempts read by CheckLoginAttempts
    result,         \* per login request: the error returned (Nil on success)
    secrets,        \* TokenManagerImpl.secretKey / refreshSecretKey
    issued,         \* token strings minted so far
    nextJti,        \* source of fresh token ids (uuid.New)
    blacklist,      \* TokenBlacklist.tokens: token string -> expiration
    tokRes,         \* the last token-manager call and what it returned
    revoked,        \* history: token -> expiry recorded by a successful InvalidateToken
    added,          \* history: token -> expiration of its latest AddToken
    lockDelay,      \* the last CalculateLockDelay call: attempts, jitter, delay
    limiters,       \* IPRateLimiter.limiters: client ip -> bucket
    rlRes,          \* the last request through IPRateLimitMiddleware
    mu,             \* the registries' sync.RWMutex: writer and readers
    gor,            \* the goroutines inside a registry call
    svcTokens,      \* services.TokenBlacklist.tokens
    heap,           \* the *ratelimit.Bucket objects made so far
    bmap,           \* IPRateLimiter.limiters as pointers: ip -> index in heap, or 0
    rq,             \* the requests inside IPRateLimitMiddleware, with their pointer
    allowed,        \* per ip, the requests let through since the clock last moved
    server          \* main: running, shutting, shut, exited

loginVars == <<users, loginAttempts, pc, req, found, seen, result>>
tokenVars == <<secrets, issued, nextJti, blacklist, tokRes, revoked, added>>
limiterVars == <<limiters, rlRes>>
lockVars == <<mu, gor, svcTokens>>
sweepVars == <<heap, bmap, rq, allowed, server>>
otherVars == <<lockDelay, limiters, rlRes, mu, gor, svcTokens,
               heap, bmap, rq, allowed, server>>
vars == <<users, loginAttempts, now, ticks, pc, req, found, seen, result,
          secrets, issued, nextJti, blacklist, tokRes, revoked, added, lockDelay,
          limiters, rlRes, mu, gor, svcTokens, heap, bmap, rq, allowed, server>>

\* ------------------------------------------------------------ the database
\* bcrypt: the stored hash of a password, and its comparison
HashPassword(password) == <<"bcrypt", password>>
CheckPasswordHash(user, password) == user.password = HashPassword(password)

NoUser == [id |-> 0, status |-> "", lockedUntil |-> 0, lockReason |-> "", deleted |-> FALSE,
           password |-> <<>>]

\* users are soft-deleted (gorm.DeletedAt): a row with deleted_at set is
\* invisible to every query and update
Visible(us, username) == username \in DOMAIN us /\ ~us[username].deleted

FindUserByUsername(us, username) ==
    IF Visible(us, username)
    THEN [user |-> us[username], err |-> Nil]
    ELSE [user |-> NoUser, err |-> NewNotFoundError("User not found")]

UsernameOfID(us, userID) ==
    {u \in DOMAIN us : us[u].id = userID}

\* the update writing lock_reason and locked_until but not the status
LockUser_StatusKept(us, userID, reason, duration, t) ==
    [u \in DOMAIN us |->
        IF us[u].id = userID /\ ~us[u].deleted
        THEN [us[u] EXCEPT !.lockReason = reason, !.lockedUntil = t + duration]
        ELSE us[u]]

\* UPDATE users SET status='locked', lock_reason=?, locked_until=now+duration
\* WHERE id = ?
LockUser(us, userID, reason, duration, t) ==
    [u \in DOMAIN us |->
        IF us[u].id = userID /\ ~us[u].deleted
        THEN [us[u] EXCEPT !.status = UserStatusLocked, !.lockReason = reason,
                           !.lockedUntil = t + duration]
        ELSE us[u]]

\* UPDATE users SET status='active' WHERE id = ?  (zero fields are skipped)
UnlockUser(us, userID) ==
    [u \in DOMAIN us |->
        IF us[u].id = userID /\ ~us[u].deleted
        THEN [us[u] EXCEPT !.status = UserStatusActive]
        ELSE us[u]]

MarkUserInactive(us, userID) ==
    [u \in DOMAIN us |->
        IF us[u].id = userID /\ ~us[u].deleted
        THEN [us[u] EXCEPT !.status = UserStatusInactive]
        ELSE us[u]]

\* UPDATE users SET status='deleted', deleted_at=? WHERE id = ?
DeleteUser(us, userID) ==
    [u \in DOMAIN us |->
        IF us[u].id = userID /\ ~us[u].deleted
        THEN [us[u] EXCEPT !.status = UserStatusDeleted, !.deleted = TRUE]
        ELSE us[u]]

\* UPDATE users SET status='inactive', deleted_at=now WHERE status='active'
\* AND last_activity_at < now - 90 days.  No code writes last_activity_at, so
\* which rows are that old is an input: stale.
MarkInactiveUsers(us, stale) ==
    [u \in DOMAIN us |->
        IF u \in stale /\ ~us[u].deleted /\ us[u].status = UserStatusActive
        THEN [us[u] EXCEPT !.status = UserStatusInactive, !.deleted = TRUE]
        ELSE us[u]]

\* the sub-query of LockSecurityViolationUsers: a ledger row of the username
\* with success = false and last_attempt in the last 30 days.  A row that
\* counts failures was written with success = false at its last failure, and
\* the clock of the model spans hours; a reset row has last_attempt NULL.
RecentFailure(la, username) ==
    \E ip \in Origins : la[<<username, ip>>].exists /\ la[<<username, ip>>].attempts > 0

\* UPDATE users SET status='locked', locked_until=now+24h, lock_reason=?
\* WHERE username IN (sub-query)
LockSecurityViolationUsers(us, la, t) ==
    [u \in DOMAIN us |->
        IF ~us[u].deleted /\ RecentFailure(la, u)
        THEN [us[u] EXCEPT !.status = UserStatusLocked,
                           !.lockedUntil = t + Hour(24),
                           !.lockReason = "Multiple failed login attempts"]
        ELSE us[u]]

\* DELETE FROM users WHERE status='inactive' AND deleted_at < now - 365 days,
\* soft-deleted rows included (Unscoped).  old: the rows whose deleted_at is
\* that long ago.
HardDeletePermanentlyInactiveUsers(us, old) ==
    [u \in {v \in DOMAIN us :
              ~(v \in old /\ us[v].deleted /\ us[v].status = UserStatusInactive)}
        |-> us[u]]

\* the three statements of CleanupUsers in their order; an error of one is
\* logged and the next still runs
CleanupUsers(us, la, t, stale, old) ==
    HardDeletePermanentlyInactiveUsers(
        MarkInactiveUsers(LockSecurityViolationUsers(us, la, t), stale), old)

NoRow == [exists |-> FALSE, attempts |-> 0]

\* SELECT ... WHERE username = ? AND ip_address = ? LIMIT 1
First(la, key) == la[key].exists

GetLoginAttempts(la, key) == IF la[key].exists THEN la[key].attempts ELSE 0

\* the first row written with a count of zero
Create_FromZero(la, key) ==
    IF la[key].exists
    THEN [table |-> la, err |-> NewDatabaseError("UNIQUE constraint failed")]
    ELSE [table |-> [la EXCEPT ![key] = [exists |-> TRUE, attempts |-> 0]],
          err |-> Nil]

\* INSERT: the unique index idx_username_ip rejects a second row for the key
Create(la, key) ==
    IF la[key].exists
    THEN [table |-> la, err |-> NewDatabaseError("UNIQUE constraint failed")]
    ELSE [table |-> [la EXCEPT ![key] = [exists |-> TRUE, attempts |-> 1]],
          err |-> Nil]

\* UPDATE login_attempts SET attempts = attempts + 1 WHERE ...
UpdateIncrement(la, key) ==
    IF la[key].exists
    THEN [la EXCEPT ![key].attempts = @ + 1]
    ELSE la

\* the reset written with the username as its only condition
UpdateReset_WholeUsername(la, key) ==
    IF la[key].exists
    THEN [k \in DOMAIN la |->
            IF k[1] = key[1] /\ la[k].exists THEN [la[k] EXCEPT !.attempts = 0]
            ELSE la[k]]
    ELSE la

\* UPDATE login_attempts SET attempts = 0 WHERE ...
UpdateReset(la, key) ==
    IF la[key].exists
    THEN [la EXCEPT ![key].attempts = 0]
    ELSE la

\* the second statement of IncrementLoginAttempts, given what First() found
IncrementLoginAttempts(la, key, rowFound) ==
    IF ~rowFound
    THEN Create(la, key)
    ELSE [table |-> UpdateIncrement(la, key), err |-> Nil]

\* ------------------------------------------------------- lockout policy
delaySteps == <<Sec(1), Sec(2), Sec(4), Sec(8), Sec(16), Sec(32),
                Minute(1), Minute(2), Minute(4), Hour(1)>>

RawDelay(attempts) ==
    LET a == IF attempts < 1 THEN 1 ELSE attempts
    IN  IF a - 1 < Len(delaySteps) THEN delaySteps[a] ELSE Hour(1)

\* rand.Intn(n) draws from 0..n-1; the model draws the two ends
JitterDraws(attempts) == {0, (RawDelay(attempts) \div 10) - 1}

\* the delay returned without the final cap
CalculateLockDelay_Uncapped(attempts, jitter) == RawDelay(attempts) + jitter

CalculateLockDelay(attempts, jitter) ==
    LET maxDelay == Hour(1)
        delay == RawDelay(attempts) + jitter
    IN  IF delay > maxDelay THEN maxDelay ELSE delay

\* the status test without the comparison of locked_until with the clock
CheckUserStatus_StatusOnly(user, t) ==
    CASE user.status = UserStatusLocked ->
            NewAuthenticationError("USER_LOCKED", "account locked")
      [] user.status \in {UserStatusInactive, UserStatusDeleted} ->
            NewAuthenticationError("USER_INACTIVE", "account inactive")
      [] OTHER -> Nil

CheckUserStatus(user, t) ==
    CASE user.status = UserStatusLocked ->
            IF user.lockedUntil > t
            THEN NewAuthenticationError("USER_LOCKED", "account locked")
            ELSE Nil
      [] user.status \in {UserStatusInactive, UserStatusDeleted} ->
            NewAuthenticationError("USER_INACTIVE", "account inactive")
      [] OTHER -> Nil

\* the threshold test written as "more than the maximum"
MustLock_Above(attempts) == attempts > MAX_LOGIN_ATTEMPTS

\* CheckLoginAttempts, its decision on the attempts it read
MustLock(attempts) == attempts >= MAX_LOGIN_ATTEMPTS

\* the password comparison placed ahead of the status check
LoginEntry_PasswordFirst(us, t, username, password) ==
    LET f == FindUserByUsername(us, username)
    IN  IF f.err # Nil
        THEN [next |-> "done", err |-> NewNotFoundError("User not found")]
        ELSE IF ~CheckPasswordHash(f.user, password)
        THEN [next |-> "inc_first", err |-> Nil]
        ELSE IF CheckUserStatus(f.user, t) # Nil
        THEN [next |-> "done", err |-> NewInternalError("Failed to check user status")]
        ELSE [next |-> "chk_get", err |-> Nil]

\* ValidateUserAuthentication up to its first write: lookup, status check,
\* password comparison.  next is the statement the request goes to.
LoginEntry(us, t, username, password) ==
    LET f == FindUserByUsername(us, username)
    IN  IF f.err # Nil
        THEN [next |-> "done", err |-> NewNotFoundError("User not found")]
        ELSE IF CheckUserStatus(f.user, t) # Nil
        THEN [next |-> "done", err |-> NewInternalError("Failed to check user status")]
        ELSE IF ~CheckPasswordHash(f.user, password)
        THEN [next |-> "inc_first", err |-> Nil]
        ELSE [next |-> "chk_get", err |-> Nil]

\* rand.Intn(int(jitterMax.Milliseconds())): fifty evenly spaced draws of the
\* range 0 .. jitterMax-1, and its last value
JitterSamples(attempts) ==
    LET jitterMax == RawDelay(attempts) \div 10
    IN  {k * (jitterMax \div 50) : k \in 0 .. 49} \cup {jitterMax - 1}

\* the attempt counts CalculateLockDelay is called with
DelayAttempts == (0 .. MaxDelayAttempts) \cup {2147483647}

CalculateLockDelayAct ==
    /\ \E attempts \in DelayAttempts : \E jitter \in JitterSamples(attempts) :
          lockDelay' = [attempts |-> attempts, jitter |-> jitter,
                        delay |-> CalculateLockDelay(attempts, jitter)]
    /\ UNCHANGED <<now, ticks>>
    /\ UNCHANGED loginVars
    /\ UNCHANGED tokenVars
    /\ UNCHANGED limiterVars
    /\ UNCHANGED lockVars
    /\ UNCHANGED sweepVars

\* where a wrong-password login goes once the attempt is recorded
AfterRecord(err) ==
    IF err # Nil
    THEN NewInternalError("Failed to record login attempt")
    ELSE NewAuthenticationError("INVALID_CREDENTIALS", "invalid credentials")

KeyOf(p) == <<req[p].username, req[p].ipAddress>>

InFlight(key) ==
    Cardinality({q \in Procs : pc[q] \in {"inc_first", "inc_write"} /\ KeyOf(q) = key})

\* ------------------------------------------------------------ login steps
Begin(p, username, password, ipAddress) ==
    /\ pc[p] \in {"idle", "done"}
    /\ password = "bad" =>
          GetLoginAttempts(loginAttempts, <<username, ipAddress>>)
              + InFlight(<<username, ipAddress>>) < MaxAttemptCount
    /\ LET e == LoginEntry(users, now, username, password)
       IN  /\ pc' = [pc EXCEPT ![p] = e.next]
           /\ result' = [result EXCEPT ![p] = e.err]
    /\ req' = [req EXCEPT ![p] = [username |-> username, password |-> password,
                                  ipAddress |-> ipAddress]]
    /\ found' = [found EXCEPT ![p] = FALSE]
    /\ seen' = [seen EXCEPT ![p] = 0]
    /\ UNCHANGED <<users, loginAttempts, now, ticks>>
    /\ UNCHANGED tokenVars
    /\ UNCHANGED otherVars

\* recordFailedLoginAttempt: GetLoginAttempts (for the log line only), then
\* IncrementLoginAttempts' First()
IncFirst(p) ==
    /\ pc[p] = "inc_first"
    /\ found' = [found EXCEPT ![p] = First(loginAttempts, KeyOf(p))]
    /\ pc' = [pc EXCEPT ![p] = "inc_write"]
    /\ UNCHANGED <<users, loginAttempts, now, ticks, req, seen, result>>
    /\ UNCHANGED tokenVars
    /\ UNCHANGED otherVars

IncWrite(p) ==
    /\ pc[p] = "inc_write"
    /\ LET w == IncrementLoginAttempts(loginAttempts, KeyOf(p), found[p])
       IN  /\ loginAttempts' = w.table
           /\ result' = [result EXCEPT ![p] = AfterRecord(w.err)]
    /\ pc' = [pc EXCEPT ![p] = "done"]
    /\ found' = [found EXCEPT ![p] = FALSE]
    /\ UNCHANGED <<users, now, ticks, req, seen>>
    /\ UNCHANGED tokenVars
    /\ UNCHANGED otherVars

\* CheckLoginAttempts: read the count
ChkGet(p) ==
    /\ pc[p] = "chk_get"
    /\ LET n == GetLoginAttempts(loginAttempts, KeyOf(p))
       IN  /\ seen' = [seen EXCEPT ![p] = n]
           /\ pc' = [pc EXCEPT ![p] = IF MustLock(n) THEN "lock" ELSE "reset_first"]
    /\ UNCHANGED <<users, loginAttempts, now, ticks, req, found, result>>
    /\ UNCHANGED tokenVars
    /\ UNCHANGED otherVars

\* CheckLoginAttempts: lock the user and return the locked error
Lock(p) ==
    /\ pc[p] = "lock"
    /\ \E jitter \in JitterDraws(seen[p]) :
          users' = LockUser(users, users[req[p].username].id,
                            "Exceeded maximum login attempts",
                            CalculateLockDelay(seen[p], jitter), now)
    /\ result' = [result EXCEPT ![p] =
          NewAuthenticationError("USER_LOCKED", "too many login attempts. Account locked")]
    /\ pc' = [pc EXCEPT ![p] = "done"]
    /\ UNCHANGED <<loginAttempts, now, ticks, req, found, seen>>
    /\ UNCHANGED tokenVars
    /\ UNCHANGED otherVars

\* resetLoginAttempts -> ResetLoginAttempts: First()
ResetFirst(p) ==
    /\ pc[p] = "reset_first"
    /\ found' = [found EXCEPT ![p] = FALSE]
    /\ pc' = [pc EXCEPT ![p] =
          IF First(loginAttempts, KeyOf(p)) THEN "reset_write" ELSE "done"]
    /\ UNCHANGED <<users, loginAttempts, now, ticks, req, seen, result>>
    /\ UNCHANGED tokenVars
    /\ UNCHANGED otherVars

ResetWrite(p) ==
    /\ pc[p] = "reset_write"
    /\ loginAttempts' = UpdateReset(loginAttempts, KeyOf(p))
    /\ pc' = [pc EXCEPT ![p] = "done"]
    /\ found' = [found EXCEPT ![p] = FALSE]
    /\ UNCHANGED <<users, now, ticks, req, seen, result>>
    /\ UNCHANGED tokenVars
    /\ UNCHANGED otherVars

\* account administration (user handler / repository calls)
AdminUnlock ==
    /\ \E u \in DOMAIN users : users' = UnlockUser(users, users[u].id)
    /\ users' # users
    /\ UNCHANGED <<loginAttempts, now, ticks, pc, req, found, seen, result>>
    /\ UNCHANGED tokenVars
    /\ UNCHANGED otherVars

AdminInactive ==
    /\ \E u \in DOMAIN users : users' = MarkUserInactive(users, users[u].id)
    /\ users' # users
    /\ UNCHANGED <<loginAttempts, now, ticks, pc, req, found, seen, result>>
    /\ UNCHANGED tokenVars
    /\ UNCHANGED otherVars

AdminDelete ==
    /\ \E u \in DOMAIN users : users' = DeleteUser(users, users[u].id)
    /\ users' # users
    /\ UNCHANGED <<loginAttempts, now, ticks, pc, req, found, seen, result>>
    /\ UNCHANGED tokenVars
    /\ UNCHANGED otherVars

\* LockUser called on its own
LockUserAct ==
    /\ \E u \in DOMAIN users :
          users' = LockUser(users, users[u].id, "Exceeded maximum login attempts",
                            Sec(16), now)
    /\ users' # users
    /\ UNCHANGED <<loginAttempts, now, ticks, pc, req, found, seen, result>>
    /\ UNCHANGED tokenVars
    /\ UNCHANGED otherVars

MarkInactiveUsersAct ==
    /\ \E stale \in SUBSET DOMAIN users : users' = MarkInactiveUsers(users, stale)
    /\ users' # users
    /\ UNCHANGED <<loginAttempts, now, ticks, pc, req, found, seen, result>>
    /\ UNCHANGED tokenVars
    /\ UNCHANGED otherVars

LockSecurityViolationUsersAct ==
    /\ users' = LockSecurityViolationUsers(users, loginAttempts, now)
    /\ users' # users
    /\ UNCHANGED <<loginAttempts, now, ticks, pc, req, found, seen, result>>
    /\ UNCHANGED tokenVars
    /\ UNCHANGED otherVars

\* one run of the user cleanup.  Every soft delete of the model happens within
\* the hours its clock spans, so no row has been deleted for a year.
CleanupUsersAct ==
    /\ \E stale \in SUBSET DOMAIN users :
          users' = CleanupUsers(users, loginAttempts, now, stale, {})
    /\ users' # users
    /\ UNCHANGED <<loginAttempts, now, ticks, pc, req, found, seen, result>>
    /\ UNCHANGED tokenVars
    /\ UNCHANGED otherVars

LoginClockSteps == {Sec(1), Sec(20), Hour(2)}

LoginTick ==
    /\ ticks < MaxClock
    /\ \E d \in LoginClockSteps : now' = now + d
    /\ ticks' = ticks + 1
    /\ UNCHANGED loginVars
    /\ UNCHANGED otherVars
    /\ UNCHANGED tokenVars
    /\ UNCHANGED otherVars

\* the clock passes every lock delay at once
LockExpiryTick ==
    /\ ticks < MaxClock
    /\ now' = now + Hour(2)
    /\ ticks' = ticks + 1
    /\ UNCHANGED loginVars
    /\ UNCHANGED otherVars
    /\ UNCHANGED tokenVars
    /\ UNCHANGED otherVars

\* ------------------------------------------------------------ token manager
AccessToken == "access"
RefreshToken == "refresh"
TokenTypes == {AccessToken, RefreshToken}

\* jwt.NewNumericDate: a time truncated to whole seconds
NewNumericDate(t) == (t \div Sec(1)) * Sec(1)

NoClaims == [UserID |-> 0, Username |-> "", TokenType |-> "", ID |-> 0,
             ExpiresAt |-> 0, IssuedAt |-> 0]

\* the JSON payload segment of a token: dates travel as seconds
EncodeClaims_NoUsername(c) ==
    <<c.UserID, "", c.TokenType, c.ID,
      c.ExpiresAt \div Sec(1), c.IssuedAt \div Sec(1)>>

EncodeClaims(c) ==
    <<c.UserID, c.Username, c.TokenType, c.ID,
      c.ExpiresAt \div Sec(1), c.IssuedAt \div Sec(1)>>

DecodeClaims(seg) ==
    [UserID |-> seg[1], Username |-> seg[2], TokenType |-> seg[3], ID |-> seg[4],
     ExpiresAt |-> Sec(seg[5]), IssuedAt |-> Sec(seg[6])]

\* HS256: the signature of a payload under a key
Sign(key, payload) == <<"HS256", key, payload>>

SignedString(key, claims) ==
    [payload |-> EncodeClaims(claims), sig |-> Sign(key, EncodeClaims(claims))]

\* a string that is no JWT at all
GarbageToken == [payload |-> <<"garbage">>, sig |-> <<>>]

\* a minted token whose token_type was rewritten without the key
Tamper(tok) ==
    [tok EXCEPT !.payload[3] = IF @ = AccessToken THEN RefreshToken ELSE AccessToken]

\* the parser run without validating exp
ParseWithClaims_NoExpiry(tok, key, t) ==
    IF Len(tok.payload) # 6
    THEN [claims |-> NoClaims, cause |-> "malformed"]
    ELSE IF tok.sig # Sign(key, tok.payload)
    THEN [claims |-> NoClaims, cause |-> "signature"]
    ELSE [claims |-> DecodeClaims(tok.payload), cause |-> ""]

\* jwt.ParseWithClaims: decode, verify the signature, then validate exp
ParseWithClaims(tok, key, t) ==
    IF Len(tok.payload) # 6
    THEN [claims |-> NoClaims, cause |-> "malformed"]
    ELSE IF tok.sig # Sign(key, tok.payload)
    THEN [claims |-> NoClaims, cause |-> "signature"]
    ELSE IF ~(t < DecodeClaims(tok.payload).ExpiresAt)
    THEN [claims |-> NoClaims, cause |-> "expired"]
    ELSE [claims |-> DecodeClaims(tok.payload), cause |-> ""]

SecretFor_Single(sec, tokenType) == sec.access

SecretFor(sec, tokenType) ==
    IF tokenType = AccessToken THEN sec.access ELSE sec.refresh

ExpirationDuration(tokenType) ==
    IF tokenType = AccessToken THEN Minute(15) ELSE Hour(7 * 24)

GenerateToken(sec, t, jti, userID, username, tokenType) ==
    IF tokenType \notin TokenTypes
    THEN [token |-> GarbageToken,
          err |-> NewTokenError("TOKEN_INVALID_TYPE", "Invalid token type")]
    ELSE [token |-> SignedString(SecretFor(sec, tokenType),
                      [UserID |-> userID, Username |-> username,
                       TokenType |-> tokenType, ID |-> jti,
                       ExpiresAt |-> NewNumericDate(t + ExpirationDuration(tokenType)),
                       IssuedAt |-> NewNumericDate(t)]),
          err |-> Nil]

\* TokenBlacklist
AddToken(bl, tok, expiration) ==
    [x \in DOMAIN bl \cup {tok} |-> IF x = tok THEN expiration ELSE bl[x]]

IsBlacklisted_Inclusive(bl, t, tok) == tok \in DOMAIN bl /\ t <= bl[tok]

IsBlacklisted(bl, t, tok) == tok \in DOMAIN bl /\ t < bl[tok]

Cleanup_Unexpired(bl, t) == [x \in {y \in DOMAIN bl : t > bl[y]} |-> bl[x]]

Cleanup(bl, t) == [x \in {y \in DOMAIN bl : ~(t > bl[y])} |-> bl[x]]

\* the validation without the comparison of token_type
ValidateToken_NoKindCheck(bl, sec, t, tok, expectedTokenType) ==
    IF IsBlacklisted(bl, t, tok)
    THEN [claims |-> NoClaims,
          err |-> NewTokenError("TOKEN_BLACKLISTED", "Token is blacklisted")]
    ELSE IF expectedTokenType \notin TokenTypes
    THEN [claims |-> NoClaims,
          err |-> NewTokenError("TOKEN_INVALID_TYPE", "Invalid token type")]
    ELSE LET p == ParseWithClaims(tok, SecretFor(sec, expectedTokenType), t)
         IN  IF p.cause # ""
             THEN [claims |-> NoClaims,
                   err |-> NewTokenError("PARSE_ERROR", "Token parsing error")]
             ELSE [claims |-> p.claims, err |-> Nil]

ValidateToken(bl, sec, t, tok, expectedTokenType) ==
    IF IsBlacklisted(bl, t, tok)
    THEN [claims |-> NoClaims,
          err |-> NewTokenError("TOKEN_BLACKLISTED", "Token is blacklisted")]
    ELSE IF expectedTokenType \notin TokenTypes
    THEN [claims |-> NoClaims,
          err |-> NewTokenError("TOKEN_INVALID_TYPE", "Invalid token type")]
    ELSE LET p == ParseWithClaims(tok, SecretFor(sec, expectedTokenType), t)
         IN  IF p.cause # ""
             THEN [claims |-> NoClaims,
                   err |-> NewTokenError("PARSE_ERROR", "Token parsing error")]
             ELSE IF p.claims.TokenType # expectedTokenType
             THEN [claims |-> NoClaims,
                   err |-> NewTokenError("TOKEN_INVALID_TYPE",
                                         "Token type does not match expected type")]
             ELSE [claims |-> p.claims, err |-> Nil]

\* the registry entry given a lifetime shorter than the token's own
InvalidateToken_Short(bl, sec, t, tok) ==
    IF IsBlacklisted(bl, t, tok)
    THEN [blacklist |-> bl,
          err |-> NewTokenError("TOKEN_BLACKLISTED", "Token is blacklisted")]
    ELSE IF ValidateToken(bl, sec, t, tok, AccessToken).err # Nil
    THEN [blacklist |-> bl, err |-> ValidateToken(bl, sec, t, tok, AccessToken).err]
    ELSE [blacklist |-> AddToken(bl, tok, t + Minute(1)), err |-> Nil]

InvalidateToken(bl, sec, t, tok) ==
    IF IsBlacklisted(bl, t, tok)
    THEN [blacklist |-> bl,
          err |-> NewTokenError("TOKEN_BLACKLISTED", "Token is blacklisted")]
    ELSE IF ValidateToken(bl, sec, t, tok, AccessToken).err # Nil
    THEN [blacklist |-> bl, err |-> ValidateToken(bl, sec, t, tok, AccessToken).err]
    ELSE [blacklist |-> AddToken(bl, tok, t + Hour(24)), err |-> Nil]

\* ------------------------------------------------------------ token steps
Subjects == {<<1, "alice">>, <<2, "bob">>}
ExpectedTypes == TokenTypes \cup {"other"}

\* what a client can present: minted tokens, rewritten ones, garbage
IssuedTokens == {m.token : m \in issued}
TokenInputs == IssuedTokens \cup {Tamper(x) : x \in IssuedTokens} \cup {GarbageToken}

\* the subjects log in in rotation: alice, bob, alice, ...
Requester(jti) == CHOOSE s \in Subjects : s[1] = 2 - (jti % 2)

GenerateTokenAct ==
    /\ Cardinality(issued) < MaxIssued
    /\ \E s \in {Requester(nextJti)}, k \in TokenTypes :
          LET g == GenerateToken(secrets, now, nextJti, s[1], s[2], k)
          IN  /\ issued' = issued \cup {[token |-> g.token, userID |-> s[1],
                                         username |-> s[2], tokenType |-> k]}
              /\ tokRes' = [op |-> "generate", token |-> g.token, kind |-> k,
                            claims |-> NoClaims, err |-> g.err]
    /\ nextJti' = nextJti + 1
    /\ UNCHANGED <<secrets, blacklist, revoked, added, now, ticks>>
    /\ UNCHANGED loginVars
    /\ UNCHANGED otherVars

ValidateTokenAct ==
    /\ \E tok \in TokenInputs, k \in ExpectedTypes :
          LET v == ValidateToken(blacklist, secrets, now, tok, k)
          IN  tokRes' = [op |-> "validate", token |-> tok, kind |-> k,
                         claims |-> v.claims, err |-> v.err]
    /\ UNCHANGED <<secrets, issued, nextJti, blacklist, revoked, added, now, ticks>>
    /\ UNCHANGED loginVars
    /\ UNCHANGED otherVars

InvalidateTokenAct ==
    /\ \E tok \in TokenInputs :
          LET r == InvalidateToken(blacklist, secrets, now, tok)
          IN  /\ blacklist' = r.blacklist
              /\ revoked' = IF r.err = Nil
                            THEN AddToken(revoked, tok, now + Hour(24))
                            ELSE revoked
              /\ tokRes' = [op |-> "invalidate", token |-> tok, kind |-> AccessToken,
                            claims |-> NoClaims, err |-> r.err]
    /\ UNCHANGED <<secrets, issued, nextJti, added, now, ticks>>
    /\ UNCHANGED loginVars
    /\ UNCHANGED otherVars

\* an Authorization header without a bearer token
NoToken == [payload |-> <<>>, sig |-> <<>>]

\* the middleware validating without consulting the registry
AuthMiddleware_NoRegistry(bl, sec, us, t, tok) ==
    IF tok = NoToken
    THEN [next |-> FALSE, status |-> 401]
    ELSE LET v == ValidateToken(<<>>, sec, t, tok, AccessToken)
         IN  IF v.err # Nil
             THEN [next |-> FALSE, status |-> 401]
             ELSE IF FindUserByUsername(us, v.claims.Username).err # Nil
             THEN [next |-> FALSE, status |-> 403]
             ELSE IF CheckUserStatus(FindUserByUsername(us, v.claims.Username).user, t) # Nil
             THEN [next |-> FALSE, status |-> 403]
             ELSE [next |-> TRUE, status |-> 200]

\* AuthMiddleware: next says whether c.Next() ran, that is whether the
\* protected route handler was reached
AuthMiddleware(bl, sec, us, t, tok) ==
    IF tok = NoToken
    THEN [next |-> FALSE, status |-> 401]
    ELSE LET v == ValidateToken(bl, sec, t, tok, AccessToken)
         IN  IF v.err # Nil
             THEN [next |-> FALSE, status |-> 401]
             ELSE IF FindUserByUsername(us, v.claims.Username).err # Nil
             THEN [next |-> FALSE, status |-> 403]
             ELSE IF CheckUserStatus(FindUserByUsername(us, v.claims.Username).user, t) # Nil
             THEN [next |-> FALSE, status |-> 403]
             ELSE [next |-> TRUE, status |-> 200]

\* a request to a protected route
AuthMiddlewareAct ==
    /\ \E tok \in TokenInputs \cup {NoToken} :
          LET m == AuthMiddleware(blacklist, secrets, users, now, tok)
          IN  tokRes' = [op |-> "request", token |-> tok, kind |-> AccessToken,
                         next |-> m.next, status |-> m.status]
    /\ UNCHANGED <<secrets, issued, nextJti, blacklist, revoked, added, now, ticks>>
    /\ UNCHANGED loginVars
    /\ UNCHANGED otherVars

CleanupAct ==
    /\ blacklist' = Cleanup(blacklist, now)
    /\ blacklist' # blacklist
    /\ UNCHANGED <<secrets, issued, nextJti, tokRes, revoked, added, now, ticks>>
    /\ UNCHANGED loginVars
    /\ UNCHANGED otherVars

TokenClockSteps == {500, Hour(23)}

TokenTick ==
    /\ ticks < MaxClock
    /\ \E d \in TokenClockSteps : now' = now + d
    /\ ticks' = ticks + 1
    /\ UNCHANGED tokenVars
    /\ UNCHANGED loginVars
    /\ UNCHANGED otherVars

\* the registry on its own: AddToken, IsBlacklisted and Cleanup called directly
TokenNames == {"t1", "t2"}
ExpirationOffsets == {0 - Sec(1), 0, Sec(1), Sec(2)}

AddTokenAct ==
    /\ \E tok \in TokenNames, d \in ExpirationOffsets :
          /\ blacklist' = AddToken(blacklist, tok, now + d)
          /\ added' = AddToken(added, tok, now + d)
    /\ tokRes' = [op |-> "add"]
    /\ UNCHANGED <<secrets, issued, nextJti, revoked, now, ticks>>
    /\ UNCHANGED loginVars
    /\ UNCHANGED otherVars

IsBlacklistedAct ==
    /\ \E tok \in TokenNames :
          tokRes' = [op |-> "isBlacklisted", token |-> tok,
                     answer |-> IsBlacklisted(blacklist, now, tok)]
    /\ UNCHANGED <<secrets, issued, nextJti, blacklist, revoked, added, now, ticks>>
    /\ UNCHANGED loginVars
    /\ UNCHANGED otherVars

RegistryCleanupAct ==
    /\ blacklist' = Cleanup(blacklist, now)
    /\ blacklist' # blacklist
    /\ tokRes' = [op |-> "cleanup"]
    /\ UNCHANGED <<secrets, issued, nextJti, revoked, added, now, ticks>>
    /\ UNCHANGED loginVars
    /\ UNCHANGED otherVars

RegistryTick ==
    /\ ticks < MaxClock
    /\ now' = now + Sec(1)
    /\ ticks' = ticks + 1
    /\ tokRes' = [op |-> "tick"]
    /\ UNCHANGED <<secrets, issued, nextJti, blacklist, revoked, added>>
    /\ UNCHANGED loginVars
    /\ UNCHANGED otherVars

\* ------------------------------------------------------------ refresh flow
\* utils.ValidateToken: the secret is chosen by the expected kind, the token is
\* parsed, and its token_type must be the expected one; no registry is asked
UtilsValidateToken(sec, t, tok, tokenType) ==
    LET p == ParseWithClaims(tok, IF tokenType = RefreshToken THEN sec.refresh
                                  ELSE sec.access, t)
    IN  IF p.cause # ""
        THEN [claims |-> NoClaims, err |-> NewTokenError(p.cause, "jwt error")]
        ELSE IF p.claims.TokenType # tokenType
        THEN [claims |-> NoClaims, err |-> NewTokenError("", "invalid token type")]
        ELSE [claims |-> p.claims, err |-> Nil]

\* SELECT * FROM users WHERE id = ? AND deleted_at IS NULL LIMIT 1
FindUserByID(us, userID) ==
    IF \E u \in DOMAIN us : us[u].id = userID /\ ~us[u].deleted
    THEN [username |-> CHOOSE u \in DOMAIN us : us[u].id = userID /\ ~us[u].deleted,
          err |-> Nil]
    ELSE [username |-> "", err |-> NewNotFoundError("User not found")]

\* the service accepting whatever parses under the refresh secret
ValidateRefreshToken_AnyKind(sec, us, t, tok) ==
    LET p == ParseWithClaims(tok, sec.refresh, t)
    IN  IF p.cause # ""
        THEN [userID |-> 0, username |-> "", err |-> NewTokenError(p.cause, "jwt error")]
        ELSE IF FindUserByID(us, p.claims.UserID).err # Nil
        THEN [userID |-> 0, username |-> "",
              err |-> FindUserByID(us, p.claims.UserID).err]
        ELSE [userID |-> p.claims.UserID,
              username |-> FindUserByID(us, p.claims.UserID).username, err |-> Nil]

\* AuthServiceImpl.ValidateRefreshToken: the user row of the token's user id
ValidateRefreshToken(sec, us, t, tok) ==
    LET v == UtilsValidateToken(sec, t, tok, RefreshToken)
    IN  IF v.err # Nil
        THEN [userID |-> 0, username |-> "", err |-> v.err]
        ELSE IF v.claims.TokenType # RefreshToken
        THEN [userID |-> 0, username |-> "",
              err |-> NewTokenError("", "invalid token type")]
        ELSE IF FindUserByID(us, v.claims.UserID).err # Nil
        THEN [userID |-> 0, username |-> "",
              err |-> FindUserByID(us, v.claims.UserID).err]
        ELSE [userID |-> v.claims.UserID,
              username |-> FindUserByID(us, v.claims.UserID).username, err |-> Nil]

\* utils.GenerateAccessToken and utils.GenerateRefreshToken: no token id
UtilsGenerateAccessToken(sec, t, userID, username) ==
    SignedString(sec.access,
        [UserID |-> userID, Username |-> username, TokenType |-> AccessToken,
         ID |-> 0, ExpiresAt |-> NewNumericDate(t + Hour(24)),
         IssuedAt |-> NewNumericDate(t)])

UtilsGenerateRefreshToken(sec, t, userID, username) ==
    SignedString(sec.refresh,
        [UserID |-> userID, Username |-> username, TokenType |-> RefreshToken,
         ID |-> 0, ExpiresAt |-> NewNumericDate(t + Hour(7 * 24)),
         IssuedAt |-> NewNumericDate(t)])

\* AuthServiceImpl.RefreshTokens
ServiceRefreshTokens(sec, t, userID, username) ==
    [AccessToken |-> UtilsGenerateAccessToken(sec, t, userID, username),
     RefreshToken |-> UtilsGenerateRefreshToken(sec, t, userID, username)]

NoPair == [AccessToken |-> NoToken, RefreshToken |-> NoToken]

\* the handler asking CheckUserStatus before it mints
RefreshTokens_StatusChecked(sec, us, t, tok) ==
    LET v == ValidateRefreshToken(sec, us, t, tok)
    IN  IF tok = NoToken
        THEN [status |-> 400, tokenPair |-> NoPair]
        ELSE IF v.err # Nil
        THEN [status |-> 401, tokenPair |-> NoPair]
        ELSE IF CheckUserStatus(us[v.username], t) # Nil
        THEN [status |-> 401, tokenPair |-> NoPair]
        ELSE [status |-> 200,
              tokenPair |-> ServiceRefreshTokens(sec, t, v.userID, v.username)]

\* AuthHandlerImpl.RefreshTokens
RefreshTokens(sec, us, t, tok) ==
    LET v == ValidateRefreshToken(sec, us, t, tok)
    IN  IF tok = NoToken
        THEN [status |-> 400, tokenPair |-> NoPair]
        ELSE IF v.err # Nil
        THEN [status |-> 401, tokenPair |-> NoPair]
        ELSE [status |-> 200,
              tokenPair |-> ServiceRefreshTokens(sec, t, v.userID, v.username)]

\* what CheckUserStatus would say of the account a token names: locked with
\* locked_until ahead, or inactive
AccountBlocked(us, t, tok) ==
    /\ Len(tok.payload) = 6
    /\ Visible(us, DecodeClaims(tok.payload).Username)
    /\ CheckUserStatus(us[DecodeClaims(tok.payload).Username], t) # Nil

\* a refresh request; blocked records the state of the account at that moment
RefreshTokensAct ==
    /\ \E tok \in TokenInputs \cup {NoToken} :
          LET r == RefreshTokens(secrets, users, now, tok)
          IN  tokRes' = [op |-> "refresh", token |-> tok, kind |-> RefreshToken,
                         status |-> r.status, tokenPair |-> r.tokenPair,
                         blocked |-> AccountBlocked(users, now, tok)]
    /\ UNCHANGED <<secrets, issued, nextJti, blacklist, revoked, added, now, ticks>>
    /\ UNCHANGED loginVars
    /\ UNCHANGED otherVars

\* AuthServiceImpl.LoginUser: lookup, password comparison, then the pair from
\* RefreshTokens
LoginUser(sec, us, t, username, password) ==
    IF FindUserByUsername(us, username).err # Nil
    THEN [tokenPair |-> NoPair, err |-> FindUserByUsername(us, username).err]
    ELSE IF ~CheckPasswordHash(FindUserByUsername(us, username).user, password)
    THEN [tokenPair |-> NoPair,
          err |-> NewAuthenticationError("", "invalid credentials")]
    ELSE [tokenPair |-> ServiceRefreshTokens(sec, t,
                            FindUserByUsername(us, username).user.id, username),
          err |-> Nil]

\* a login request; the pair it returns is in the client's hands
LoginUserAct ==
    /\ \E u \in DOMAIN users, pw \in Passwords :
          LET l == LoginUser(secrets, users, now, u, pw)
          IN  /\ tokRes' = [op |-> "login", status |-> IF l.err = Nil THEN 200 ELSE 401,
                            tokenPair |-> l.tokenPair]
              /\ issued' = IF l.err # Nil THEN issued
                           ELSE issued \cup
                                {[token |-> l.tokenPair.AccessToken, userID |-> users[u].id,
                                  username |-> u, tokenType |-> AccessToken],
                                 [token |-> l.tokenPair.RefreshToken, userID |-> users[u].id,
                                  username |-> u, tokenType |-> RefreshToken]}
              /\ Cardinality(issued') <= MaxIssued
    /\ UNCHANGED <<secrets, nextJti, blacklist, revoked, added, now, ticks>>
    /\ UNCHANGED loginVars
    /\ UNCHANGED otherVars

RefreshClockSteps == {Hour(1), Hour(4 * 24)}

RefreshTick ==
    /\ ticks < MaxClock
    /\ \E d \in RefreshClockSteps : now' = now + d
    /\ ticks' = ticks + 1
    /\ tokRes' = [op |-> "tick"]
    /\ UNCHANGED <<secrets, issued, nextJti, blacklist, revoked, added>>
    /\ UNCHANGED loginVars
    /\ UNCHANGED otherVars

\* ------------------------------------------------------------ rate limiter
\* the fill interval the buckets are created with
duration == Sec(10)

Min(a, b) == IF a < b THEN a ELSE b

\* no entry in IPRateLimiter.limiters.  grants, lastGrant and refused are
\* history: the requests let through since the bucket was made, the time of
\* the last of them, and whether one was refused
NoBucket == [exists |-> FALSE, startTime |-> 0, latestTick |-> 0,
             availableTokens |-> 0, grants |-> 0, lastGrant |-> 0,
             refused |-> FALSE]

\* ratelimit.NewBucket(fillInterval, capacity): a bucket that starts full and
\* gains one token every fillInterval
NewBucket(fillInterval, capacity, t) ==
    [exists |-> TRUE, startTime |-> t, latestTick |-> 0,
     availableTokens |-> capacity, grants |-> 0, lastGrant |-> 0,
     refused |-> FALSE]

currentTick(b, t) == (t - b.startTime) \div duration

adjustavailableTokens(b, t) ==
    IF b.availableTokens >= globalBurst
    THEN [b EXCEPT !.latestTick = currentTick(b, t)]
    ELSE [b EXCEPT !.availableTokens =
                       Min(globalBurst, @ + (currentTick(b, t) - b.latestTick)),
                   !.latestTick = currentTick(b, t)]

\* a take that leaves the bucket as full as it was
TakeAvailable_Free(b, t, count) ==
    LET a == adjustavailableTokens(b, t)
    IN  IF a.availableTokens <= 0
        THEN [bucket |-> a, taken |-> 0]
        ELSE [bucket |-> a, taken |-> Min(count, a.availableTokens)]

\* Bucket.TakeAvailable(count): takes what is there, never waits
TakeAvailable(b, t, count) ==
    LET a == adjustavailableTokens(b, t)
    IN  IF a.availableTokens <= 0
        THEN [bucket |-> a, taken |-> 0]
        ELSE [bucket |-> [a EXCEPT !.availableTokens = @ - Min(count, @)],
              taken |-> Min(count, a.availableTokens)]

\* Bucket.Available()
Available(b, t) == adjustavailableTokens(b, t).availableTokens

\* the X-Forwarded-For header as its comma-separated entries
ForwardedFor == {<<>>, <<"1.2.3.4">>, <<"5.6.7.8", "1.2.3.4">>}
Paths == {"/api/v1/auth/login", "/api/v1/users/"}

getRealIP(header, remoteAddr) == IF header # <<>> THEN header[1] ELSE remoteAddr

getIPLimiter(ls, ip, t) ==
    IF ls[ip].exists THEN ls ELSE [ls EXCEPT ![ip] = NewBucket(duration, globalBurst, t)]

\* the middleware letting the request go on after answering 429
IPRateLimitMiddleware_NoAbort(ls, t, ip, path) ==
    LET made == getIPLimiter(ls, ip, t)
        take == TakeAvailable(made[ip], t, 1)
    IN  IF take.taken = 0
        THEN [limiters |-> [made EXCEPT ![ip] = take.bucket],
              next |-> TRUE, status |-> 429, body |-> <<>>,
              logs |-> << [event |-> "rate_limit_triggered", ip_address |-> ip,
                           request_path |-> path],
                          [event |-> "ip_activity_tracked", ip_address |-> ip,
                           request_path |-> ""] >>]
        ELSE [limiters |-> [made EXCEPT ![ip] = take.bucket],
              next |-> TRUE, status |-> 200, body |-> <<>>, logs |-> <<>>]

\* IPRateLimitMiddleware: next says whether c.Next() ran; body is the JSON
\* object written, as its sequence of members; logs are the events of the
\* refusal (logRateLimitEvent, trackIPActivity)
IPRateLimitMiddleware(ls, t, ip, path) ==
    LET made == getIPLimiter(ls, ip, t)
        take == TakeAvailable(made[ip], t, 1)
    IN  IF take.taken = 0
        THEN [limiters |-> [made EXCEPT ![ip] = take.bucket],
              next |-> FALSE, status |-> 429, body |-> <<>>,
              logs |-> << [event |-> "rate_limit_triggered", ip_address |-> ip,
                           request_path |-> path],
                          [event |-> "ip_activity_tracked", ip_address |-> ip,
                           request_path |-> ""] >>]
        ELSE [limiters |-> [made EXCEPT ![ip] = take.bucket],
              next |-> TRUE, status |-> 200, body |-> <<>>, logs |-> <<>>]

IPRateLimitMiddlewareAct ==
    /\ \E header \in ForwardedFor, remoteAddr \in Origins, path \in Paths :
          LET ip == getRealIP(header, remoteAddr)
              m == IPRateLimitMiddleware(limiters, now, ip, path)
          IN  /\ limiters' = [m.limiters EXCEPT
                                ![ip].grants = IF m.next THEN @ + 1 ELSE @,
                                ![ip].lastGrant = IF m.next THEN now ELSE @,
                                ![ip].refused = IF m.next THEN @ ELSE TRUE]
              /\ rlRes' = [op |-> "request", ip |-> ip, path |-> path,
                           next |-> m.next, status |-> m.status, body |-> m.body,
                           logs |-> m.logs]
    /\ UNCHANGED <<now, ticks, lockDelay>>
    /\ UNCHANGED loginVars
    /\ UNCHANGED tokenVars
    /\ UNCHANGED lockVars
    /\ UNCHANGED sweepVars

\* one round of the hourly sweep: Available() brings each bucket up to date,
\* and the full ones are deleted
cleanupOldLimiters(ls, t) ==
    [ip \in DOMAIN ls |->
        IF ~ls[ip].exists THEN ls[ip]
        ELSE IF Available(ls[ip], t) = globalBurst THEN NoBucket
        ELSE adjustavailableTokens(ls[ip], t)]

cleanupOldLimitersAct ==
    /\ limiters' = cleanupOldLimiters(limiters, now)
    /\ limiters' # limiters
    /\ rlRes' = [op |-> "sweep"]
    /\ UNCHANGED <<now, ticks, lockDelay>>
    /\ UNCHANGED loginVars
    /\ UNCHANGED tokenVars
    /\ UNCHANGED lockVars
    /\ UNCHANGED sweepVars

LimiterClockSteps == {duration \div 2, duration}

LimiterTick ==
    /\ ticks < MaxClock
    /\ \E d \in LimiterClockSteps : now' = now + d
    /\ ticks' = ticks + 1
    /\ UNCHANGED <<lockDelay, limiters, rlRes>>
    /\ UNCHANGED loginVars
    /\ UNCHANGED tokenVars
    /\ UNCHANGED lockVars
    /\ UNCHANGED sweepVars

\* ------------------------------------------------- the registries' locking
\* token.TokenBlacklist and services.TokenBlacklist, each a map behind its own
\* sync.RWMutex
Registries == {"token", "services"}
Goroutines == {1, 2}
LockTokens == {"t1"}
LockOffsets == {0 - Sec(1), Sec(1)}

Idle == [reg |-> "", op |-> "", pc |-> "idle", token |-> "", answer |-> FALSE]

\* services.TokenBlacklist.Add
TokenBlacklistAdd(m, tok, expiration) == AddToken(m, tok, expiration)

\* the loop of services.TokenBlacklist.IsBlacklisted that deletes the expired
TokenBlacklistDiscard(m, t) == [x \in {y \in DOMAIN m : ~(t > m[y])} |-> m[x]]

\* the lookup that ends services.TokenBlacklist.IsBlacklisted
TokenBlacklistLookup(m, tok) == tok \in DOMAIN m

\* mu.Lock() of AddToken, Cleanup and Add
MuLock(g) ==
    /\ gor[g].pc = "idle"
    /\ \E reg \in Registries, op \in {"Add", "Cleanup"} :
          /\ reg = "services" => op = "Add"
          /\ mu[reg].writer = 0
          /\ mu[reg].readers = {}
          /\ mu' = [mu EXCEPT ![reg].writer = g]
          /\ gor' = [gor EXCEPT ![g] = [Idle EXCEPT !.reg = reg, !.op = op,
                                                   !.pc = "locked"]]
    /\ UNCHANGED <<svcTokens, now, ticks, lockDelay, limiters, rlRes>>
    /\ UNCHANGED sweepVars
    /\ UNCHANGED loginVars
    /\ UNCHANGED tokenVars

\* the body of AddToken, Cleanup and Add
Write(g) ==
    /\ gor[g].pc = "locked"
    /\ \/ /\ gor[g].op = "Add"
          /\ \E tok \in LockTokens, d \in LockOffsets :
                IF gor[g].reg = "token"
                THEN /\ blacklist' = AddToken(blacklist, tok, now + d)
                     /\ UNCHANGED svcTokens
                ELSE /\ svcTokens' = TokenBlacklistAdd(svcTokens, tok, now + d)
                     /\ UNCHANGED blacklist
       \/ /\ gor[g].op = "Cleanup"
          /\ blacklist' = Cleanup(blacklist, now)
          /\ UNCHANGED svcTokens
    /\ gor' = [gor EXCEPT ![g].pc = "unlock"]
    /\ UNCHANGED <<mu, lockDelay, limiters, rlRes>>
    /\ UNCHANGED sweepVars
    /\ UNCHANGED <<secrets, issued, nextJti, tokRes, revoked, added, now, ticks>>
    /\ UNCHANGED loginVars

\* the deferred mu.Unlock()
MuUnlock(g) ==
    /\ gor[g].pc = "unlock"
    /\ mu' = [mu EXCEPT ![gor[g].reg].writer = 0]
    /\ gor' = [gor EXCEPT ![g] = Idle]
    /\ UNCHANGED <<svcTokens, now, ticks, lockDelay, limiters, rlRes>>
    /\ UNCHANGED sweepVars
    /\ UNCHANGED loginVars
    /\ UNCHANGED tokenVars

\* mu.RLock() of the two IsBlacklisted
MuRLock(g) ==
    /\ gor[g].pc = "idle"
    /\ \E reg \in Registries, tok \in LockTokens :
          /\ mu[reg].writer = 0
          /\ mu' = [mu EXCEPT ![reg].readers = @ \cup {g}]
          /\ gor' = [gor EXCEPT ![g] =
                        [Idle EXCEPT !.reg = reg, !.op = "IsBlacklisted",
                                     !.token = tok,
                                     !.pc = IF reg = "services" THEN "discard"
                                            ELSE "lookup"]]
    /\ UNCHANGED <<svcTokens, now, ticks, lockDelay, limiters, rlRes>>
    /\ UNCHANGED sweepVars
    /\ UNCHANGED loginVars
    /\ UNCHANGED tokenVars

\* services.TokenBlacklist.IsBlacklisted: the expired entries are deleted
Discard(g) ==
    /\ gor[g].pc = "discard"
    /\ svcTokens' = TokenBlacklistDiscard(svcTokens, now)
    /\ gor' = [gor EXCEPT ![g].pc = "lookup"]
    /\ UNCHANGED <<mu, now, ticks, lockDelay, limiters, rlRes>>
    /\ UNCHANGED sweepVars
    /\ UNCHANGED loginVars
    /\ UNCHANGED tokenVars

\* the read of the map in the two IsBlacklisted
Lookup(g) ==
    /\ gor[g].pc = "lookup"
    /\ gor' = [gor EXCEPT ![g].pc = "runlock",
                          ![g].answer =
                              IF gor[g].reg = "token"
                              THEN IsBlacklisted(blacklist, now, gor[g].token)
                              ELSE TokenBlacklistLookup(svcTokens, gor[g].token)]
    /\ UNCHANGED <<mu, svcTokens, now, ticks, lockDelay, limiters, rlRes>>
    /\ UNCHANGED sweepVars
    /\ UNCHANGED loginVars
    /\ UNCHANGED tokenVars

\* the deferred mu.RUnlock()
MuRUnlock(g) ==
    /\ gor[g].pc = "runlock"
    /\ mu' = [mu EXCEPT ![gor[g].reg].readers = @ \ {g}]
    /\ gor' = [gor EXCEPT ![g] = Idle]
    /\ UNCHANGED <<svcTokens, now, ticks, lockDelay, limiters, rlRes>>
    /\ UNCHANGED sweepVars
    /\ UNCHANGED loginVars
    /\ UNCHANGED tokenVars

LockTick ==
    /\ ticks < MaxClock
    /\ now' = now + Sec(1)
    /\ ticks' = ticks + 1
    /\ UNCHANGED <<secrets, issued, nextJti, blacklist, tokRes, revoked, added>>
    /\ UNCHANGED loginVars
    /\ UNCHANGED otherVars

\* ------------------------------------- the rate limiter, step by step
\* IPRateLimitMiddleware as its two steps: getIPLimiter under l.mu, then
\* TakeAvailable on the pointer it returned, outside l.mu; the sweep goroutine
\* holds l.mu for a whole round; main with its shutdown sequence
NoRq == [pc |-> "idle", ip |-> "", ref |-> 0]

\* the client whose requests are followed
SweepClients == {"1.2.3.4"}

\* getIPLimiter
SwGetIPLimiter(p) ==
    /\ server = "running"
    /\ rq[p].pc = "idle"
    /\ \E header \in ForwardedFor, remoteAddr \in Origins :
          LET ip == getRealIP(header, remoteAddr)
          IN  IF ip \notin SweepClients
              THEN FALSE
              ELSE IF bmap[ip] # 0
              THEN /\ rq' = [rq EXCEPT ![p] = [pc |-> "take", ip |-> ip,
                                              ref |-> bmap[ip]]]
                   /\ UNCHANGED <<heap, bmap>>
              ELSE /\ Len(heap) < MaxBuckets
                   /\ heap' = Append(heap, NewBucket(duration, globalBurst, now))
                   /\ bmap' = [bmap EXCEPT ![ip] = Len(heap) + 1]
                   /\ rq' = [rq EXCEPT ![p] = [pc |-> "take", ip |-> ip,
                                              ref |-> Len(heap) + 1]]
    /\ UNCHANGED <<allowed, server, now, ticks>>
    /\ UNCHANGED <<lockDelay, limiters, rlRes>>
    /\ UNCHANGED lockVars
    /\ UNCHANGED loginVars
    /\ UNCHANGED tokenVars

\* limiter.TakeAvailable(1) and the rest of the handler
SwTakeAvailable(p) ==
    /\ server # "exited"
    /\ rq[p].pc = "take"
    /\ LET take == TakeAvailable(heap[rq[p].ref], now, 1)
       IN  /\ heap' = [heap EXCEPT ![rq[p].ref] = take.bucket]
           /\ allowed' = [allowed EXCEPT ![rq[p].ip] = @ + take.taken]
           /\ rq' = [rq EXCEPT ![p] = NoRq]
    /\ UNCHANGED <<bmap, server, now, ticks>>
    /\ UNCHANGED <<lockDelay, limiters, rlRes>>
    /\ UNCHANGED lockVars
    /\ UNCHANGED loginVars
    /\ UNCHANGED tokenVars

\* one round of the sweep goroutine of cleanupOldLimiters
SwCleanup ==
    /\ server # "exited"
    /\ heap' = [i \in DOMAIN heap |->
                  IF \E ip \in Origins : bmap[ip] = i
                  THEN adjustavailableTokens(heap[i], now) ELSE heap[i]]
    /\ bmap' = [ip \in Origins |->
                  IF bmap[ip] # 0 /\ Available(heap[bmap[ip]], now) = globalBurst
                  THEN 0 ELSE bmap[ip]]
    /\ bmap' # bmap
    /\ UNCHANGED <<rq, allowed, server, now, ticks>>
    /\ UNCHANGED <<lockDelay, limiters, rlRes>>
    /\ UNCHANGED lockVars
    /\ UNCHANGED loginVars
    /\ UNCHANGED tokenVars

SwTick ==
    /\ server # "exited"
    /\ ticks < MaxClock
    /\ now' = now + duration
    /\ ticks' = ticks + 1
    /\ allowed' = [ip \in Origins |-> 0]
    /\ UNCHANGED <<heap, bmap, rq, server>>
    /\ UNCHANGED <<lockDelay, limiters, rlRes>>
    /\ UNCHANGED lockVars
    /\ UNCHANGED loginVars
    /\ UNCHANGED tokenVars

\* main: the signal arrives, srv.Shutdown returns, main returns
MainStep ==
    /\ server # "exited"
    /\ server' = CASE server = "running" -> "shutting"
                   [] server = "shutting" -> "shut"
                   [] server = "shut" -> "exited"
    /\ UNCHANGED <<heap, bmap, rq, allowed, now, ticks>>
    /\ UNCHANGED <<lockDelay, limiters, rlRes>>
    /\ UNCHANGED lockVars
    /\ UNCHANGED loginVars
    /\ UNCHANGED tokenVars

\* ------------------------------------------------------------------- Init
NoReq == [username |-> "", password |-> "", ipAddress |-> ""]

Init ==
    /\ users = [u \in {"alice"} |->
                  [id |-> 1, status |-> UserStatusActive, lockedUntil |-> 0, lockReason |-> "",
                   deleted |-> FALSE, password |-> HashPassword("good")]]
    /\ loginAttempts = [k \in Keys |-> NoRow]
    /\ now = Hour(1)
    /\ ticks = 0
    /\ pc = [p \in Procs |-> "idle"]
    /\ req = [p \in Procs |-> NoReq]
    /\ found = [p \in Procs |-> FALSE]
    /\ seen = [p \in Procs |-> 0]
    /\ result = [p \in Procs |-> Nil]
    /\ secrets = [access |-> "k1", refresh |-> "k2"]
    /\ issued = {}
    /\ nextJti = 1
    /\ blacklist = <<>>
    /\ tokRes = [op |-> "none"]
    /\ revoked = <<>>
    /\ added = <<>>
    /\ lockDelay = [attempts |-> 0, jitter |-> 0, delay |-> 0]
    /\ limiters = [ip \in Origins |-> NoBucket]
    /\ rlRes = [op |-> "none"]
    /\ mu = [reg \in Registries |-> [writer |-> 0, readers |-> {}]]
    /\ gor = [g \in Goroutines |-> Idle]
    /\ svcTokens = <<>>
    /\ heap = <<>>
    /\ bmap = [ip \in Origins |-> 0]
    /\ rq = [p \in Procs |-> NoRq]
    /\ allowed = [ip \in Origins |-> 0]
    /\ server = "running"

LoginStepOn(p, names, origins) ==
    \/ \E u \in names, pw \in Passwords, ip \in origins : Begin(p, u, pw, ip)
    \/ IncFirst(p)
    \/ IncWrite(p)
    \/ ChkGet(p)
    \/ Lock(p)
    \/ ResetFirst(p)
    \/ ResetWrite(p)

\* one login request at a time, account administration and the clock
SeqNext ==
    \/ LoginStepOn(1, Usernames, Origins)
    \/ AdminUnlock
    \/ AdminInactive
    \/ AdminDelete
    \/ LoginTick

SeqSpec == Init /\ [][SeqNext]_vars

\* the operations on the account status, with sequential logins of one key
StatusNext ==
    \/ LoginStepOn(1, {"alice"}, {"1.2.3.4"})
    \/ LockUserAct
    \/ AdminUnlock
    \/ AdminInactive
    \/ AdminDelete
    \/ MarkInactiveUsersAct
    \/ LockSecurityViolationUsersAct
    \/ LoginTick

StatusSpec == Init /\ [][StatusNext]_vars

\* sequential logins of one key, the user cleanup, unlocking and the clock
CleanupNext ==
    \/ LoginStepOn(1, {"alice"}, {"1.2.3.4"})
    \/ CleanupUsersAct
    \/ AdminUnlock
    \/ LoginTick

CleanupSpec == Init /\ [][CleanupNext]_vars

\* concurrent login requests for one (username, origin) key, and the clock
LoginNext ==
    \/ \E p \in Procs : LoginStepOn(p, {"alice"}, {"1.2.3.4"})
    \/ LockExpiryTick

LoginSpec == Init /\ [][LoginNext]_vars


\* the token manager: minting, validation, logout, the sweep and the clock
TokenInit ==
    /\ Init!1 /\ Init!2 /\ Init!3 /\ Init!4 /\ Init!5 /\ Init!6 /\ Init!7
    /\ Init!8 /\ Init!9
    /\ secrets \in {[access |-> "k1", refresh |-> "k2"],
                    [access |-> "k1", refresh |-> "k1"]}
    /\ issued = {}
    /\ nextJti = 1
    /\ blacklist = <<>>
    /\ tokRes = [op |-> "none"]
    /\ revoked = <<>>
    /\ added = <<>>
    /\ lockDelay = [attempts |-> 0, jitter |-> 0, delay |-> 0]
    /\ limiters = [ip \in Origins |-> NoBucket]
    /\ rlRes = [op |-> "none"]
    /\ mu = [reg \in Registries |-> [writer |-> 0, readers |-> {}]]
    /\ gor = [g \in Goroutines |-> Idle]
    /\ svcTokens = <<>>
    /\ heap = <<>>
    /\ bmap = [ip \in Origins |-> 0]
    /\ rq = [p \in Procs |-> NoRq]
    /\ allowed = [ip \in Origins |-> 0]
    /\ server = "running"

TokenNext ==
    \/ GenerateTokenAct
    \/ ValidateTokenAct
    \/ InvalidateTokenAct
    \/ CleanupAct
    \/ TokenTick

TokenSpec == TokenInit /\ [][TokenNext]_vars

\* the protected routes: login mints tokens, logout invalidates them, requests
\* pass through AuthMiddleware, accounts are administered meanwhile
GateNext ==
    \/ GenerateTokenAct
    \/ InvalidateTokenAct
    \/ AuthMiddlewareAct
    \/ CleanupAct
    \/ TokenTick
    \/ AdminInactive
    \/ AdminDelete

GateSpec == TokenInit /\ [][GateNext]_vars

\* login, refresh and logout of the token pair
RefreshNext ==
    \/ GenerateTokenAct
    \/ RefreshTokensAct
    \/ InvalidateTokenAct
    \/ RefreshTick

RefreshSpec == TokenInit /\ [][RefreshNext]_vars

\* the refresh flow while the accounts are locked, marked inactive or deleted
RefreshStatusNext ==
    \/ GenerateTokenAct
    \/ RefreshTokensAct
    \/ LockUserAct
    \/ AdminInactive
    \/ AdminDelete
    \/ RefreshTick

RefreshStatusSpec == TokenInit /\ [][RefreshStatusNext]_vars


\* login, logout and the refresh flow
LogoutNext ==
    \/ LoginUserAct
    \/ InvalidateTokenAct
    \/ RefreshTokensAct
    \/ RefreshTick

LogoutSpec == TokenInit /\ [][LogoutNext]_vars

\* the lock-delay calculation on its own
DelaySpec == Init /\ [][CalculateLockDelayAct]_vars

\* the rate limiter: requests, the sweep and the clock
LimiterNext ==
    \/ IPRateLimitMiddlewareAct
    \/ cleanupOldLimitersAct
    \/ LimiterTick

LimiterSpec == Init /\ [][LimiterNext]_vars

\* requests, the sweep goroutine, the clock and main's shutdown
SweepNext ==
    \/ \E p \in Procs : SwGetIPLimiter(p)
    \/ \E p \in Procs : SwTakeAvailable(p)
    \/ SwCleanup
    \/ SwTick
    \/ MainStep

SweepSpec == Init /\ [][SweepNext]_vars

\* goroutines calling into the two registries
LockNext ==
    \/ \E g \in Goroutines : MuLock(g)
    \/ \E g \in Goroutines : Write(g)
    \/ \E g \in Goroutines : MuUnlock(g)
    \/ \E g \in Goroutines : MuRLock(g)
    \/ \E g \in Goroutines : Discard(g)
    \/ \E g \in Goroutines : Lookup(g)
    \/ \E g \in Goroutines : MuRUnlock(g)
    \/ LockTick

LockSpec == Init /\ [][LockNext]_vars

RegistryNext ==
    \/ AddTokenAct
    \/ IsBlacklistedAct
    \/ RegistryCleanupAct
    \/ RegistryTick

RegistrySpec == Init /\ [][RegistryNext]_vars

\* ------------------------------------------------------------ login claims
InvalidCredentials == NewAuthenticationError("INVALID_CREDENTIALS", "invalid credentials")

\* the step in which request p's IncrementLoginAttempts call returns
RecordReturns(p) == pc[p] = "inc_write" /\ pc'[p] = "done"

\* (C1) When a wrong-password login of an active account returns and the
\* stored count for its (username, origin) is then 5 or more - it was the 5th
\* or a later consecutive failure - the call returns AccountLocked (USER_LOCKED),
\* not InvalidCredentials, and the account's row is locked with locked_until in
\* the future.
C1_FifthFailureLocks ==
    [][\A p \in Procs :
          (RecordReturns(p) /\ GetLoginAttempts(loginAttempts', KeyOf(p)) >= MAX_LOGIN_ATTEMPTS)
          => /\ result'[p].code = "USER_LOCKED"
             /\ users'[req[p].username].status = UserStatusLocked
             /\ users'[req[p].username].lockedUntil > now']_vars

\* (C3) A login never returns success when the count it read at its
\* CheckLoginAttempts step was 5 or more, even with the correct password: it
\* goes on to lock the account, returns USER_LOCKED, and its LockUser write
\* leaves the row locked with locked_until in the future.
C3_NoSuccessAtThreshold ==
    /\ [](\A p \in Procs :
            (pc[p] = "done" /\ req[p].password = "good" /\ result[p] = Nil)
            => seen[p] < MAX_LOGIN_ATTEMPTS)
    /\ [][\A p \in Procs :
            (pc[p] = "chk_get"
             /\ GetLoginAttempts(loginAttempts, KeyOf(p)) >= MAX_LOGIN_ATTEMPTS
             /\ pc'[p] # pc[p])
            => pc'[p] = "lock"]_vars
    /\ [][\A p \in Procs :
            (pc[p] = "lock" /\ pc'[p] = "done")
            => /\ result'[p].code = "USER_LOCKED"
               /\ users'[req[p].username].status = UserStatusLocked
               /\ users'[req[p].username].lockedUntil > now']_vars

\* a correct-password login that found the count at the threshold and was
\* turned away with the account locked
C3_Witness ==
    \E p \in Procs :
        /\ pc[p] = "done" /\ req[p].password = "good"
        /\ seen[p] >= MAX_LOGIN_ATTEMPTS
        /\ result[p].code = "USER_LOCKED"
        /\ users[req[p].username].status = UserStatusLocked
        /\ users[req[p].username].lockedUntil > now

\* an account the status check turns away
Blocked(us, t, username) ==
    /\ username \in DOMAIN us
    /\ \/ us[username].status = UserStatusLocked /\ us[username].lockedUntil > t
       \/ us[username].status \in {UserStatusInactive, UserStatusDeleted}

OtherPassword(password) == IF password = "good" THEN "bad" ELSE "good"

\* the step in which request p enters ValidateUserAuthentication
Begins(p) ==
    /\ pc[p] \in {"idle", "done"}
    /\ <<pc'[p], req'[p], result'[p]>> # <<pc[p], req[p], result[p]>>

\* (C4) For an account that is locked with locked_until in the future, or
\* inactive, or deleted, a login returns at once with the same error whether
\* the password is right or wrong, and writes nothing: no attempt recorded, no
\* lock written, no counter reset.
C4_BlockedLoginBlind ==
    /\ [](\A u \in Usernames :
            Blocked(users, now, u)
            => /\ LoginEntry(users, now, u, "good") = LoginEntry(users, now, u, "bad")
               /\ LoginEntry(users, now, u, "good").next = "done"
               /\ LoginEntry(users, now, u, "good").err # Nil)
    /\ [][\A p \in Procs :
            (Begins(p) /\ Blocked(users, now, req'[p].username))
            => /\ pc'[p] = "done"
               /\ result'[p] # Nil
               /\ result'[p] =
                    LoginEntry(users, now, req'[p].username,
                               OtherPassword(req'[p].password)).err
               /\ UNCHANGED <<users, loginAttempts>>]_vars

\* a correct-password login turned away by the status check of a blocked account
C4_Witness ==
    \E p \in Procs :
        /\ pc[p] = "done" /\ req[p].password = "good"
        /\ Blocked(users, now, req[p].username)
        /\ ~users[req[p].username].deleted
        /\ result[p] = NewInternalError("Failed to check user status")

\* (C5) A login for a username that has no account returns the same generic
\* InvalidCredentials error, code and message, as a wrong-password login of an
\* active account.
C5_UnknownUserGeneric ==
    \A p \in Procs :
        (pc[p] = "done" /\ req[p].username \notin DOMAIN users)
        => result[p] = InvalidCredentials

\* (C6) Every failed login's IncrementLoginAttempts call, also when it runs
\* concurrently with others for the same key and when the key has no row yet,
\* returns without error and raises the stored count by exactly one, so N
\* concurrent failed logins raise it by exactly N.
C6_NoLostUpdate ==
    [][\A p \in Procs :
          RecordReturns(p)
          => /\ result'[p] = InvalidCredentials
             /\ GetLoginAttempts(loginAttempts', KeyOf(p))
                  = GetLoginAttempts(loginAttempts, KeyOf(p)) + 1]_vars

\* ------------------------------------------------------------ token claims
TokenRevoked == "TOKEN_BLACKLISTED"
TokenMalformed == {"TOKEN_MALFORMED", "PARSE_ERROR"}
TokenExpired == "TOKEN_EXPIRED"
TokenWrongKind == "TOKEN_INVALID_TYPE"

\* a step in which ValidateToken returned
Validates == tokRes'.op = "validate" /\ tokRes' # tokRes

\* (C2) Once InvalidateToken(t) has succeeded, ValidateToken(t, access) fails
\* with the token-blacklisted error at every later moment before the expiry of
\* the registry entry, whatever was minted, validated, invalidated or swept
\* in between.
C2_RevokedStaysRevoked ==
    \A tok \in DOMAIN revoked :
        now < revoked[tok] =>
            ValidateToken(blacklist, secrets, now, tok, AccessToken).err.code = TokenRevoked

C2_Witness ==
    /\ tokRes.op = "validate"
    /\ tokRes.kind = AccessToken
    /\ tokRes.token \in DOMAIN revoked
    /\ now < revoked[tokRes.token]
    /\ now > revoked[tokRes.token] - Hour(24)
    /\ tokRes.err.code = TokenRevoked

\* (C7) ValidateToken answers by a fixed precedence: TokenRevoked for a revoked
\* token; otherwise TokenMalformed for one that fails decoding or signature
\* verification; otherwise TokenExpired for an expired one; otherwise
\* TokenWrongKind for a kind mismatch.
C7_ValidatePrecedence ==
    [][Validates /\ tokRes'.kind \in TokenTypes =>
        LET tok == tokRes'.token
            code == tokRes'.err.code
            cause == ParseWithClaims(tok, SecretFor(secrets, tokRes'.kind), 0).cause
        IN  IF IsBlacklisted(blacklist, now, tok) THEN code = TokenRevoked
            ELSE IF cause \in {"malformed", "signature"} THEN code \in TokenMalformed
            ELSE IF ~(now < DecodeClaims(tok.payload).ExpiresAt) THEN code = TokenExpired
            ELSE IF DecodeClaims(tok.payload).TokenType # tokRes'.kind
                 THEN code = TokenWrongKind
                 ELSE TRUE]_vars

\* a minted, unexpired, unrevoked token presented as the other kind
CrossKind(tok, kind) ==
    /\ tok \in IssuedTokens
    /\ kind \in TokenTypes
    /\ DecodeClaims(tok.payload).TokenType # kind
    /\ now < DecodeClaims(tok.payload).ExpiresAt
    /\ ~IsBlacklisted(blacklist, now, tok)

\* (C8) as stated: a fresh, unrevoked access token validated as refresh, or a
\* refresh token validated as access, fails with TokenWrongKind.
C8_CrossKindIsWrongKind ==
    [][Validates /\ CrossKind(tokRes'.token, tokRes'.kind) =>
        tokRes'.err.code = TokenWrongKind]_vars

\* (C8) amended: such a validation is always rejected; the error is the parse
\* error when the access and refresh secrets differ, and TokenWrongKind only
\* when both secrets have the same value.
C8_CrossKindRejected ==
    [][Validates /\ CrossKind(tokRes'.token, tokRes'.kind) =>
        tokRes'.err.code = IF secrets.access # secrets.refresh
                           THEN "PARSE_ERROR"
                           ELSE TokenWrongKind]_vars

C8_Witness ==
    /\ tokRes.op = "validate"
    /\ CrossKind(tokRes.token, tokRes.kind)
    /\ secrets.access # secrets.refresh
    /\ tokRes.err.code = "PARSE_ERROR"

\* (C9) A token minted for a user id, a username and a kind validates under
\* that kind for as long as it is unexpired and unrevoked, and the claims
\* returned carry that user id, that username and that kind.
C9_GenerateValidateRoundTrip ==
    \A m \in issued :
        (/\ now < DecodeClaims(m.token.payload).ExpiresAt
         /\ ~IsBlacklisted(blacklist, now, m.token)) =>
            LET v == ValidateToken(blacklist, secrets, now, m.token, m.tokenType)
            IN  /\ v.err = Nil
                /\ v.claims.UserID = m.userID
                /\ v.claims.Username = m.username
                /\ v.claims.TokenType = m.tokenType

C9_Witness ==
    /\ tokRes.op = "validate"
    /\ tokRes.err = Nil
    /\ tokRes.kind = RefreshToken
    /\ now > Hour(1)
    /\ \E m \in issued :
          /\ m.token = tokRes.token
          /\ m.userID = 2
          /\ tokRes.claims.UserID = 2
          /\ tokRes.claims.Username = "bob"

C11_RevokedForWholeLifetime ==
    /\ [](\A tok \in DOMAIN blacklist :
             blacklist[tok] >= DecodeClaims(tok.payload).ExpiresAt)
    /\ [][\A tok \in DOMAIN blacklist :
             now < blacklist[tok] =>
                 /\ tok \in DOMAIN blacklist'
                 /\ blacklist'[tok] >= blacklist[tok]]_vars

\* a revoked token past its own expiry whose registry entry is still in force
C11_Witness ==
    \E tok \in DOMAIN blacklist :
        /\ tok \in DOMAIN revoked
        /\ DecodeClaims(tok.payload).ExpiresAt <= now
        /\ now < blacklist[tok]
        /\ tokRes.op = "invalidate"
        /\ tokRes.token = tok
        /\ tokRes.err.code = TokenRevoked

C13_LockExactlyAtThreshold ==
    [][\A p \in Procs :
        /\ (pc[p] = "chk_get" /\ pc'[p] # "chk_get") =>
              LET n == IF loginAttempts[KeyOf(p)].exists
                       THEN loginAttempts[KeyOf(p)].attempts ELSE 0
              IN  /\ (n >= 5) <=> (pc'[p] = "lock")
                  /\ (n <= 4) => /\ pc'[p] = "reset_first"
                                 /\ result'[p] = Nil
                                 /\ users' = users
        /\ (pc[p] = "lock" /\ pc'[p] # "lock") =>
              /\ seen[p] >= 5
              /\ pc'[p] = "done"
              /\ result'[p] = NewAuthenticationError("USER_LOCKED",
                                  "too many login attempts. Account locked")
              /\ Visible(users, req[p].username) =>
                    /\ users'[req[p].username].status = UserStatusLocked
                    /\ users'[req[p].username].lockReason = "Exceeded maximum login attempts"
                    /\ \E jitter \in JitterDraws(seen[p]) :
                          users'[req[p].username].lockedUntil
                              = now + CalculateLockDelay(seen[p], jitter)
        /\ (pc'[p] = "lock" /\ pc[p] # "lock") => pc[p] = "chk_get"]_vars

C13_Witness ==
    /\ pc[1] = "done"
    /\ result[1].code = "USER_LOCKED"
    /\ seen[1] = MAX_LOGIN_ATTEMPTS
    /\ users["alice"].status = UserStatusLocked
    /\ users["alice"].lockReason = "Exceeded maximum login attempts"
    /\ users["alice"].lockedUntil > now

Step(n) ==
    IF n >= 10 THEN Hour(1)
    ELSE IF n <= 6 THEN Sec(2 ^ (n - 1))
    ELSE Minute(2 ^ (n - 7))

C16_ExpiredLockAlwaysPasses ==
    \A u \in DOMAIN users :
        /\ (users[u].status = UserStatusLocked /\ users[u].lockedUntil > now) =>
              CheckUserStatus(users[u], now).code = "USER_LOCKED"
        /\ ~(users[u].lockedUntil > now) => CheckUserStatus(users[u], now) = Nil

\* (C16) amended: a locked row whose locked_until is after the clock is
\* refused with the account-locked error; a row whose locked_until is not
\* after the clock passes when its persisted status is locked or active, and
\* is refused with the account-inactive error when its status is inactive or
\* deleted.
C16_ExpiredLockPassesUnlessInactive ==
    \A u \in DOMAIN users :
        /\ (users[u].status = UserStatusLocked /\ users[u].lockedUntil > now) =>
              CheckUserStatus(users[u], now).code = "USER_LOCKED"
        /\ ~(users[u].lockedUntil > now) =>
              /\ users[u].status \in {UserStatusLocked, UserStatusActive} =>
                    CheckUserStatus(users[u], now) = Nil
              /\ users[u].status \in {UserStatusInactive, UserStatusDeleted} =>
                    CheckUserStatus(users[u], now).code = "USER_INACTIVE"

\* a login with the right password let through the status check of a row
\* still persisted as locked, its lock having run out
C16_Witness ==
    /\ users["alice"].status = UserStatusLocked
    /\ users["alice"].lockedUntil > 0
    /\ users["alice"].lockedUntil <= now
    /\ ~users["alice"].deleted
    /\ req[1].username = "alice"
    /\ pc[1] = "chk_get"


C19_MutationsHoldExclusiveLock ==
    [][/\ blacklist' # blacklist => mu["token"].writer # 0
       /\ svcTokens' # svcTokens => mu["services"].writer # 0]_vars


Rank(status) ==
    CASE status = UserStatusActive -> 0
      [] status = UserStatusLocked -> 1
      [] status = UserStatusInactive -> 2
      [] status = UserStatusDeleted -> 3

\* (C20) An account that is inactive or deleted keeps its status in every
\* step, and a step that takes an account to an earlier status takes it from
\* locked to active and is an UnlockUser.
C20_TerminalAndOneWay ==
    [][\A u \in DOMAIN users :
          /\ users[u].status \in {UserStatusInactive, UserStatusDeleted}
                => users'[u].status = users[u].status
          /\ Rank(users'[u].status) < Rank(users[u].status)
                => /\ users[u].status = UserStatusLocked
                   /\ users'[u].status = UserStatusActive
                   /\ users' = UnlockUser(users, users[u].id)]_vars


\* (C21) A refresh request answered 200 presented a token that is valid under
\* the refresh secret and of kind refresh, and both new tokens carry that
\* token's user id and username, the first of kind access and the second of
\* kind refresh; a minted access token presented to the refresh flow is
\* answered 401.
C21_RefreshOnlyForRefreshKind ==
    tokRes.op = "refresh" =>
      /\ tokRes.status = 200 =>
           LET p == ParseWithClaims(tokRes.token, secrets.refresh, now)
               a == DecodeClaims(tokRes.tokenPair.AccessToken.payload)
               r == DecodeClaims(tokRes.tokenPair.RefreshToken.payload)
           IN  /\ p.cause = ""
               /\ p.claims.TokenType = RefreshToken
               /\ a.TokenType = AccessToken /\ r.TokenType = RefreshToken
               /\ a.UserID = p.claims.UserID /\ a.Username = p.claims.Username
               /\ r.UserID = p.claims.UserID /\ r.Username = p.claims.Username
      /\ (\E m \in issued : m.token = tokRes.token /\ m.tokenType = AccessToken)
           => tokRes.status = 401

C21_Witness ==
    /\ tokRes.op = "refresh"
    /\ tokRes.status = 200
    /\ secrets.access = secrets.refresh
    /\ \E m \in issued : m.tokenType = AccessToken


\* (C22) A login with the correct password, from the origin whose five failed
\* attempts caused the lock and with no failure recorded since, for an account
\* whose locked_until has elapsed, passes CheckLoginAttempts and goes on to the
\* reset of the counter: it is not sent to LockUser again.
C22_ExpiredLockLoginSucceeds ==
    [][\A p \in Procs :
          (/\ pc[p] = "chk_get"
           /\ pc'[p] # pc[p]
           /\ req[p].password = "good"
           /\ users[req[p].username].status = UserStatusLocked
           /\ users[req[p].username].lockReason = "Exceeded maximum login attempts"
           /\ users[req[p].username].lockedUntil <= now
           /\ GetLoginAttempts(loginAttempts, KeyOf(p)) = MAX_LOGIN_ATTEMPTS)
          => pc'[p] = "reset_first"]_vars


\* (C23) Whatever the interleaving of the sweep with the requests, the
\* requests of one client key let through while the clock stands still, so
\* with no refill, are never more than globalBurst.
C23_SweepGivesNoExtraCredit ==
    \A ip \in Origins : allowed[ip] <= globalBurst


\* (C30) Once srv.Shutdown has returned, the sweep goroutine takes no further
\* round.
C30_NoSweepAfterShutdown ==
    [][SwCleanup => server # "shut"]_vars


\* (C24) A step that takes an account's status to locked is taken while some
\* (username, origin) key of that account has an attempt count of at least 5.
C24_LockedOnlyAtFiveAttempts ==
    [][\A u \in DOMAIN users :
          (/\ u \in DOMAIN users'
           /\ users[u].status # UserStatusLocked
           /\ users'[u].status = UserStatusLocked)
          => \E ip \in Origins :
                GetLoginAttempts(loginAttempts, <<u, ip>>) >= MAX_LOGIN_ATTEMPTS]_vars


\* a step of InvalidateTokenAct
Invalidates == tokRes'.op = "invalidate" /\ tokRes' # tokRes

\* what a logout must refuse: a token with a registry entry still in force, a
\* token this manager never minted, a minted token past its expires_at, or a
\* minted refresh token
Unrevocable(tok) ==
    \/ tok \in DOMAIN revoked /\ now < revoked[tok]
    \/ tok \notin IssuedTokens
    \/ ~(now < DecodeClaims(tok.payload).ExpiresAt)
    \/ \E m \in issued : m.token = tok /\ m.tokenType = RefreshToken

\* (C25) InvalidateToken called with an already revoked, malformed, expired
\* or refresh token returns an error; whenever it returns an error the
\* registry is the same afterwards; and for a valid, unrevoked access token it
\* returns nil and adds exactly that token's entry.
C25_FailedLogoutLeavesRegistry ==
    [][Invalidates =>
        /\ Unrevocable(tokRes'.token) => tokRes'.err # Nil
        /\ tokRes'.err # Nil => blacklist' = blacklist
        /\ ~Unrevocable(tokRes'.token) =>
             /\ tokRes'.err = Nil
             /\ blacklist' = AddToken(blacklist, tokRes'.token, now + Hour(24))]_vars

\* a refresh token refused by a logout while an earlier logout's entry stands
C25_Witness ==
    /\ tokRes.op = "invalidate"
    /\ tokRes.err # Nil
    /\ \E m \in issued : m.token = tokRes.token /\ m.tokenType = RefreshToken
    /\ \E tok \in DOMAIN blacklist : now < blacklist[tok]


\* the request of process 1 has returned the user without an error
Succeeded == pc[1] = "done" /\ result[1] = Nil /\ req[1].password = "good"

\* a step of a request on its way to success: past the password comparison,
\* in CheckLoginAttempts or in resetLoginAttempts
OnSuccessPath ==
    /\ pc'[1] # pc[1]
    /\ \/ pc'[1] \in {"chk_get", "reset_first", "reset_write"}
       \/ pc'[1] = "done" /\ result'[1] = Nil

\* (C26) When ValidateUserAuthentication has succeeded for (username, origin)
\* the attempt count of that key reads 0, a request succeeds only through
\* resetLoginAttempts, and no step of a succeeding request changes the row of
\* any other key, the same username from another origin included.
C26_SuccessResetsOnlyItsKey ==
    /\ [](Succeeded => GetLoginAttempts(loginAttempts, KeyOf(1)) = 0)
    /\ [][OnSuccessPath =>
            /\ \A key \in Keys :
                  key # <<req'[1].username, req'[1].ipAddress>>
                     => loginAttempts'[key] = loginAttempts[key]
            /\ pc'[1] = "done" => pc[1] \in {"reset_first", "reset_write"}]_vars

\* a success that reset counted failures of its own key while failures of the
\* same username from the other origin stay counted
C26_Witness ==
    /\ Succeeded
    /\ KeyOf(1) = <<"alice", "1.2.3.4">>
    /\ loginAttempts[<<"alice", "1.2.3.4">>].exists
    /\ GetLoginAttempts(loginAttempts, <<"alice", "5.6.7.8">>) > 0


\* (C27) With the access and refresh secrets set to the same value, every
\* minted token is refused by ValidateToken, and by utils.ValidateToken,
\* whenever the expected kind is not the kind it was minted as; the last
\* validation, if it was such a one, returned no claims.
C27_EqualSecretsStillSeparateKinds ==
    secrets.access = secrets.refresh =>
      /\ \A m \in issued : \A k \in TokenTypes \ {m.tokenType} :
            /\ ValidateToken(blacklist, secrets, now, m.token, k).err # Nil
            /\ UtilsValidateToken(secrets, now, m.token, k).err # Nil
      /\ (/\ tokRes.op = "validate"
          /\ \E m \in issued : m.token = tokRes.token /\ m.tokenType # tokRes.kind)
            => tokRes.err # Nil /\ tokRes.claims = NoClaims

\* under one shared secret, a fresh access token validated as refresh passes
\* the signature check and is refused on its kind
C27_Witness ==
    /\ secrets.access = secrets.refresh
    /\ tokRes.op = "validate"
    /\ tokRes.kind = RefreshToken
    /\ \E m \in issued : m.token = tokRes.token /\ m.tokenType = AccessToken
    /\ ParseWithClaims(tokRes.token, secrets.refresh, now).cause = ""
    /\ ~IsBlacklisted(blacklist, now, tokRes.token)
    /\ tokRes.err.code = TokenWrongKind


\* the last request was a refresh presenting an unexpired minted refresh token
\* of a subject one of whose access tokens has been logged out
RefreshAfterLogout ==
    /\ tokRes.op = "refresh"
    /\ \E m \in issued :
          /\ m.token = tokRes.token
          /\ m.tokenType = RefreshToken
          /\ now < DecodeClaims(m.token.payload).ExpiresAt
          /\ Visible(users, m.username)
          /\ \E a \in issued :
                /\ a.tokenType = AccessToken
                /\ a.userID = m.userID
                /\ a.token \in DOMAIN revoked

\* (C28) A logout leaves every refresh token out of the registry, and a
\* refresh presenting the refresh token of a login whose access token was
\* logged out is answered 200 with a pair whose access token and refresh token
\* both validate.
C28_RefreshSurvivesLogout ==
    /\ \A m \in issued : m.tokenType = RefreshToken => m.token \notin DOMAIN blacklist
    /\ RefreshAfterLogout =>
         /\ tokRes.status = 200
         /\ ValidateToken(blacklist, secrets, now,
                          tokRes.tokenPair.AccessToken, AccessToken).err = Nil
         /\ UtilsValidateToken(secrets, now,
                               tokRes.tokenPair.RefreshToken, RefreshToken).err = Nil


\* (C29) A refresh presenting an unexpired minted refresh token whose account
\* exists and is, at that moment, locked with locked_until ahead or inactive
\* is answered 200 with an access and a refresh token for that account.
C29_RefreshIgnoresAccountStatus ==
    (/\ tokRes.op = "refresh"
     /\ tokRes.blocked
     /\ \E m \in issued :
           /\ m.token = tokRes.token
           /\ m.tokenType = RefreshToken
           /\ now < DecodeClaims(m.token.payload).ExpiresAt)
    => /\ tokRes.status = 200
       /\ LET p == DecodeClaims(tokRes.token.payload)
              a == UtilsValidateToken(secrets, now, tokRes.tokenPair.AccessToken,
                                      AccessToken)
              r == UtilsValidateToken(secrets, now, tokRes.tokenPair.RefreshToken,
                                      RefreshToken)
          IN  /\ a.err = Nil /\ a.claims.UserID = p.UserID
              /\ r.err = Nil /\ r.claims.UserID = p.UserID

\* a pair handed out for an account that is inactive at that moment
C29_Witness ==
    /\ tokRes.op = "refresh"
    /\ tokRes.blocked
    /\ tokRes.status = 200
    /\ users["alice"].status = UserStatusInactive
    /\ DecodeClaims(tokRes.tokenPair.AccessToken.payload).Username = "alice"

====
